---- MODULE Spec2Model ----
(***************************************************************************)
(* Model of the two cores of radio-node:                                   *)
(*   - the audio session controller   (app/components/AudioPlayer.tsx,     *)
(*     driven by Home.handleStationSelect of app/page.tsx)                 *)
(*   - the station dataset assembler  (app/services/radioService.ts,       *)
(*     getRadioStationsWithGeoData)                                        *)
(* Volumes are in hundredths (0.75 is 75); coordinates are whole degrees.  *)
(***************************************************************************)
EXTENDS Integers, Sequences, FiniteSets, TLC

\* ------------------------------------------------------------------ bounds
MaxHowls == 3      \* engine handles created in one run
MaxPlays == 2      \* play() calls on one handle
MaxSupp == 1       \* records in one country-scoped reply

\* ------------------------------------------------------- audio controller
VARIABLES station, isPlaying, volume, isLoading, error, soundRef,
          howls, mounted, last

playerVars == <<station, isPlaying, volume, isLoading, error, soundRef,
                howls, mounted, last>>

\* `station: RadioStation | null`; only id and url matter to the controller.
NoStation == [id |-> "null", url |-> "undefined"]
Stations == { [id |-> "A", url |-> "u1"], [id |-> "B", url |-> "u2"],
              [id |-> "C", url |-> "u1"], [id |-> "D", url |-> ""] }

\* values the range input (min 0, max 1, step 0.01) can report
Volumes == {30, 75}
DefaultVolume == 75

NoError == "null"
LoadError == "Failed to load station"
PlayError == "Failed to play station"

\* station?.url
StationUrl(s) == IF s = NoStation THEN "undefined" ELSE s.url
\* truthiness of station?.url
Truthy(u) == u \notin {"undefined", ""}

\* an effect with no dependency array re-runs on every render
DepsOmitted(old, new) == TRUE

\* the dependency array [station?.url]: the effect re-runs when it differs
DepsChanged(old, new) == StationUrl(old) # StationUrl(new)

\* new Howl without the volume option: the engine's default, 1.0
NewHowlDefaultVolume(url, vol) ==
  [src |-> url, volume |-> 100, unloaded |-> FALSE, plays |-> 0,
   cmd |-> "none", errored |-> FALSE]

\* new Howl({src: [url], volume: volume, ...})
NewHowl(url, vol) ==
  [src |-> url, volume |-> vol, unloaded |-> FALSE, plays |-> 0,
   cmd |-> "none", errored |-> FALSE]

\* a destroyed handle: unload() stops it and drops its sounds and settings;
\* its identity (the source) and the record of a reported failure remain
Released(h) ==
  [src |-> h.src, volume |-> 0, unloaded |-> TRUE, plays |-> 0,
   cmd |-> "none", errored |-> h.errored]

\* the slot cleared without unload()
UnloadSkipped(hs, ref) == hs

\* if (soundRef.current) { soundRef.current.unload(); soundRef.current = null }
Unload(hs, ref) == IF ref = 0 THEN hs ELSE [hs EXCEPT ![ref] = Released(@)]

\* the engine reported a failure of handle h (nothing is left to mark on a
\* destroyed handle)
MarkErrored(hs, h) ==
  IF hs[h].unloaded THEN hs ELSE [hs EXCEPT ![h].errored = TRUE]

\* soundRef.current.play()
Play(hs, ref) == [hs EXCEPT ![ref].plays = @ + 1, ![ref].cmd = "play"]
\* the branch without the engine call
PauseSkipped(hs, ref) == hs

\* soundRef.current.pause()
Pause(hs, ref) == [hs EXCEPT ![ref].cmd = "pause"]
\* soundRef.current.volume(volume)
SetVolume(hs, ref, v) == IF ref = 0 THEN hs ELSE [hs EXCEPT ![ref].volume = v]

Event(e, h) == [ev |-> e, h |-> h]

\* ---------------------------------------------------- dataset assembler
VARIABLES pc, stationsWithGeo, validGeoStations, queries, replies,
          flatStations, additionalStations, result,
          arrived   \* history: the country queries in the order they settled

asmVars == <<pc, stationsWithGeo, validGeoStations, queries, replies,
             flatStations, additionalStations, result, arrived>>

vars == <<playerVars, asmVars>>

\* ===================== getRadioStationsWithGeoData =======================

\* JavaScript values of geoLat / geoLong
Num(n) == [k |-> "number", v |-> n]
Undefined == [k |-> "undefined", v |-> 0]
NaN == [k |-> "NaN", v |-> 0]

\* `x && ...` : undefined, NaN and 0 are falsy
JsTruthy(x) == x.k = "number" /\ x.v # 0
\* isNaN(x): true of NaN and of undefined
JsIsNaN(x) == x.k # "number"

Station(id, cc, lat, long) ==
  [id |-> id, countryCode |-> cc, geoLat |-> lat, geoLong |-> long]

IMPORTANT_COUNTRIES == <<"IN", "US", "GB", "JP", "CN", "AU", "BR", "RU">>

COUNTRY_BOUNDARIES ==
  [c \in {"IN", "US", "GB", "JP", "CN", "AU", "BR", "RU"} |->
     CASE c = "IN" -> [lat |-> <<8, 35>>,    long |-> <<68, 97>>]
       [] c = "US" -> [lat |-> <<24, 49>>,   long |-> <<-125, -66>>]
       [] c = "GB" -> [lat |-> <<49, 59>>,   long |-> <<-8, 2>>]
       [] c = "JP" -> [lat |-> <<30, 46>>,   long |-> <<129, 146>>]
       [] c = "CN" -> [lat |-> <<18, 54>>,   long |-> <<73, 135>>]
       [] c = "AU" -> [lat |-> <<-43, -10>>, long |-> <<113, 154>>]
       [] c = "BR" -> [lat |-> <<-33, 5>>,   long |-> <<-74, -34>>]
       [] c = "RU" -> [lat |-> <<41, 82>>,   long |-> <<19, 180>>]]

\* coverage below which a priority country is back-filled, and the limit of
\* a country-scoped query
CoverageThreshold == 5
CountryQueryLimit == 20

\* b[0] + Math.random() * (b[1] - b[0]), rounded by toFixed(6): any value of
\* [b[0], b[1]]; the draws kept are the two ends and 0 when it lies between
RandomIn(b) == {b[1], b[2]} \cup ({0} \cap (b[1]..b[2]))

\* latitude drawn from the longitude range and the reverse
getRandomCoordinateSwapped(countryCode) ==
  IF countryCode \notin DOMAIN COUNTRY_BOUNDARIES THEN {}
  ELSE LET bounds == COUNTRY_BOUNDARIES[countryCode]
       IN { [geoLat |-> Num(a), geoLong |-> Num(b)] :
              a \in RandomIn(bounds.long), b \in RandomIn(bounds.lat) }

\* getRandomCoordinateForCountry: the coordinates it can return; the empty
\* set stands for null (no bounds entry)
getRandomCoordinateForCountry(countryCode) ==
  IF countryCode \notin DOMAIN COUNTRY_BOUNDARIES THEN {}
  ELSE LET bounds == COUNTRY_BOUNDARIES[countryCode]
       IN { [geoLat |-> Num(a), geoLong |-> Num(b)] :
              a \in RandomIn(bounds.lat), b \in RandomIn(bounds.long) }

\* the predicate of stationsWithGeo.filter(...)
HasValidGeo(st) ==
  /\ JsTruthy(st.geoLat)
  /\ JsTruthy(st.geoLong)
  /\ ~JsIsNaN(st.geoLat)
  /\ ~JsIsNaN(st.geoLong)

\* the condition of the synthesis step
LacksGeo(st) ==
  \/ ~JsTruthy(st.geoLat)
  \/ ~JsTruthy(st.geoLong)
  \/ JsIsNaN(st.geoLat)
  \/ JsIsNaN(st.geoLong)

RECURSIVE Filter(_)
Filter(seq) ==
  IF seq = <<>> THEN <<>>
  ELSE IF HasValidGeo(Head(seq)) THEN <<Head(seq)>> \o Filter(Tail(seq))
       ELSE Filter(Tail(seq))

\* station.countryCode || 'unknown'
CountryKey(st) == IF st.countryCode = "" THEN "unknown" ELSE st.countryCode

\* countryCounts[code] of the reduce over validGeoStations (0: no entry)
countryCounts(valid, code) ==
  Cardinality({i \in 1..Len(valid) : CountryKey(valid[i]) = code})

\* the comparison written <= 5
NeedsBackfillInclusive(valid, code) ==
  countryCounts(valid, code) = 0 \/ countryCounts(valid, code) <= CoverageThreshold

\* !countryCounts[country.code] || countryCounts[country.code] < 5
NeedsBackfill(valid, code) ==
  countryCounts(valid, code) = 0 \/ countryCounts(valid, code) < CoverageThreshold

\* IMPORTANT_COUNTRIES.filter(...).map(country =>
\*   getRadioStationsForCountry(country.code, 20)): the calls, in issue order
RECURSIVE IssuedQueries(_, _)
IssuedQueries(valid, countries) ==
  IF countries = <<>> THEN <<>>
  ELSE IF NeedsBackfill(valid, Head(countries))
         THEN <<[countryCode |-> Head(countries), limit |-> CountryQueryLimit]>>
              \o IssuedQueries(valid, Tail(countries))
         ELSE IssuedQueries(valid, Tail(countries))

\* the results thrown away as soon as one query has failed
FlatAllOrNothing(rs) ==
  IF \E i \in 1..Len(rs) : rs[i].state = "failed" THEN <<>>
  ELSE LET RECURSIVE F(_)
           F(r) == IF r = <<>> THEN <<>> ELSE Head(r).stations \o F(Tail(r))
       IN F(rs)

\* additionalStationsArrays.flat()
RECURSIVE Flat(_)
Flat(rs) == IF rs = <<>> THEN <<>> ELSE Head(rs).stations \o Flat(Tail(rs))

\* one station through the synthesis map: the records it can become
Synthesized(st) ==
  IF LacksGeo(st) /\ getRandomCoordinateForCountry(st.countryCode) # {}
    THEN { [st EXCEPT !.geoLat = c.geoLat, !.geoLong = c.geoLong] :
             c \in getRandomCoordinateForCountry(st.countryCode) }
    ELSE {st}

RECURSIVE SynthesizedSeqs(_)
SynthesizedSeqs(seq) ==
  IF seq = <<>> THEN {<<>>}
  ELSE { <<h>> \o t : h \in Synthesized(Head(seq)),
                       t \in SynthesizedSeqs(Tail(seq)) }

\* the condition of the merge's push
Admitted(all, st) ==
  /\ ~(\E i \in 1..Len(all) : all[i].id = st.id)
  /\ JsTruthy(st.geoLat)
  /\ JsTruthy(st.geoLong)

\* allStations = [...validGeoStations]; additionalStations.forEach(...)
RECURSIVE Merge(_, _)
Merge(all, add) ==
  IF add = <<>> THEN all
  ELSE Merge(IF Admitted(all, Head(add)) THEN Append(all, Head(add)) ELSE all,
             Tail(add))

\* ------------------------------------------- the directory service's replies
SeqsUpTo(S, n) == UNION { [1..k -> S] : k \in 0..n }

\* the priority countries a primary reply leaves under-covered, and the
\* number of valid records it then carries for each of them
GapChoices == { {}, {"IN"}, {"BR"}, {"IN", "US"}, {"IN", "BR"} }
GapCounts == {0, CoverageThreshold - 1}

\* n regular records of the i-th priority country, with ids 100*i + 1 ...
BulkFor(i, n) ==
  [j \in 1..n |->
     Station(100 * i + j, IMPORTANT_COUNTRIES[i],
             Num(COUNTRY_BOUNDARIES[IMPORTANT_COUNTRIES[i]].lat[1]),
             Num(COUNTRY_BOUNDARIES[IMPORTANT_COUNTRIES[i]].long[1]))]

RECURSIVE Bulk(_, _, _)
Bulk(G, g, i) ==
  IF i > Len(IMPORTANT_COUNTRIES) THEN <<>>
  ELSE BulkFor(i, IF IMPORTANT_COUNTRIES[i] \in G THEN g ELSE CoverageThreshold)
       \o Bulk(G, g, i + 1)

\* irregular records of a primary reply: a repeated id, out-of-range, zero,
\* missing and NaN coordinates, a missing and an unlisted country code
ExtraStations ==
  { Station(101, "IN", Num(20), Num(70)),
    Station(9, "IN", Num(200), Num(70)),
    Station(9, "IN", Num(0), Num(70)),
    Station(9, "IN", Undefined, Num(70)),
    Station(8, "", Num(20), Num(70)),
    Station(8, "XX", Num(20), NaN) }

\* the tail of a primary reply: nothing, one irregular record, or the same
\* new id twice
ExtraChoices ==
  {<<>>} \cup { <<e>> : e \in ExtraStations }
         \cup { <<Station(9, "IN", Num(20), Num(70)), Station(9, "IN", Num(21), Num(71))>> }

PrimaryReplies ==
  { Bulk(G, g, 1) \o e : G \in GapChoices, g \in GapCounts, e \in ExtraChoices }

\* records of a reply to the query scoped to country c
CountryStations(c) ==
  { Station(101, c, Undefined, Undefined),
    Station(9, c, Num(0), Num(70)),
    Station(9, c, Num(50), Num(10)),
    Station(7, "XX", Undefined, Undefined) }

CountryReplies(c) == SeqsUpTo(CountryStations(c), MaxSupp)

\* ------------------------------------------------------------------ steps
Pending == [state |-> "pending", stations |-> <<>>]

\* the catch of getRadioStationsForCountry: log and return []
CountryCatch == [state |-> "failed", stations |-> <<>>]

\* a catch that logs and rethrows
PrimaryRethrow == [status |-> "threw", stations |-> <<>>]

\* the catch of getRadioStationsWithGeoData: log and return []
PrimaryCatch == [status |-> "returned", stations |-> <<>>]

\* api.searchStations({limit, hasGeoInfo: true}) resolves; the filter, the
\* coverage count and the fan-out of the country-scoped queries follow
PrimaryQueryReturns(resp) ==
  /\ pc = "start"
  /\ stationsWithGeo' = [ok |-> TRUE, stations |-> resp]
  /\ validGeoStations' = Filter(resp)
  /\ queries' = IssuedQueries(Filter(resp), IMPORTANT_COUNTRIES)
  /\ replies' = [i \in 1..Len(queries') |-> Pending]
  /\ pc' = "await"
  /\ UNCHANGED <<flatStations, additionalStations, result, arrived>>
  /\ UNCHANGED playerVars

\* the rejection swallowed and the backfill run on an empty primary result
PrimaryQueryFailsBackfills ==
  /\ pc = "start"
  /\ stationsWithGeo' = [ok |-> FALSE, stations |-> <<>>]
  /\ validGeoStations' = <<>>
  /\ queries' = IssuedQueries(<<>>, IMPORTANT_COUNTRIES)
  /\ replies' = [i \in 1..Len(queries') |-> Pending]
  /\ pc' = "await"
  /\ UNCHANGED <<flatStations, additionalStations, result, arrived>>
  /\ UNCHANGED playerVars

\* api.searchStations rejects
PrimaryQueryFails ==
  /\ pc = "start"
  /\ stationsWithGeo' = [ok |-> FALSE, stations |-> <<>>]
  /\ result' = PrimaryCatch
  /\ pc' = "done"
  /\ UNCHANGED <<validGeoStations, queries, replies, flatStations,
                 additionalStations, arrived>>
  /\ UNCHANGED playerVars

\* query i has not settled yet
Unsettled(i) == \A k \in 1..Len(arrived) : arrived[k].q # i

\* the result stored at the position of the n+1-th promise to settle
SettleInArrivalOrder(rs, i, n, r) == [rs EXCEPT ![n + 1] = r]

\* Promise.all keeps the result of promise i at index i of its result array,
\* whatever number n of promises have settled before
Settle(rs, i, n, r) == [rs EXCEPT ![i] = r]

\* getRadioStationsForCountry(queries[i].countryCode, 20) resolves with the
\* service's reply
CountryQueryReturns(i, resp) ==
  /\ pc = "await"
  /\ i \in 1..Len(queries)
  /\ Unsettled(i)
  /\ replies' = Settle(replies, i, Len(arrived),
                       [state |-> "ok", stations |-> resp])
  /\ arrived' = Append(arrived, [q |-> i, stations |-> resp])
  /\ UNCHANGED <<pc, stationsWithGeo, validGeoStations, queries,
                 flatStations, additionalStations, result>>
  /\ UNCHANGED playerVars

\* the service fails the query; getRadioStationsForCountry catches
CountryQueryFails(i) ==
  /\ pc = "await"
  /\ i \in 1..Len(queries)
  /\ Unsettled(i)
  /\ replies' = Settle(replies, i, Len(arrived), CountryCatch)
  /\ arrived' = Append(arrived, [q |-> i, stations |-> CountryCatch.stations])
  /\ UNCHANGED <<pc, stationsWithGeo, validGeoStations, queries,
                 flatStations, additionalStations, result>>
  /\ UNCHANGED playerVars

\* Promise.all has resolved: flat, coordinate synthesis, merge, return
Join ==
  /\ pc = "await"
  /\ \A i \in 1..Len(replies) : replies[i] # Pending
  /\ flatStations' = Flat(replies)
  /\ additionalStations' \in SynthesizedSeqs(Flat(replies))
  /\ result' = [status |-> "returned",
                stations |-> Merge(validGeoStations, additionalStations')]
  /\ pc' = "done"
  /\ UNCHANGED <<stationsWithGeo, validGeoStations, queries, replies, arrived>>
  /\ UNCHANGED playerVars

\* ============================ AudioPlayer ================================

\* the resets without setError(null)
EffectResetsKeepError == error' = error /\ isPlaying' = FALSE

\* setError(null); setIsPlaying(false) at the head of the effect body
EffectResets == error' = NoError /\ isPlaying' = FALSE

\* Home.handleStationSelect(s) / a null station prop, then the re-render and
\* the effect keyed on [station?.url]: the previous run's cleanup, then the
\* effect body.
StationChanged(s) ==
  /\ mounted
  /\ station' = s
  /\ last' = Event("select", 0)
  /\ IF DepsChanged(station, s)
       THEN LET cleaned == Unload(howls, soundRef)   \* cleanup of the last run
                url == StationUrl(s)
            IN /\ EffectResets
               /\ IF Truthy(url)
                    THEN /\ Len(howls) < MaxHowls
                         /\ isLoading' = TRUE
                         /\ howls' = Play(Append(cleaned, NewHowl(url, volume)),
                                          Len(cleaned) + 1)
                         /\ soundRef' = Len(cleaned) + 1
                    ELSE /\ isLoading' = isLoading
                         /\ howls' = cleaned
                         /\ soundRef' = 0
       ELSE UNCHANGED <<error, isPlaying, isLoading, howls, soundRef>>
  /\ UNCHANGED <<volume, mounted>>
  /\ UNCHANGED asmVars

\* handleVolumeChange, then the effect keyed on [volume]
handleVolumeChange(v) ==
  /\ mounted
  /\ station # NoStation          \* the slider is rendered only with a station
  /\ volume' = v
  /\ howls' = SetVolume(howls, soundRef, v)
  /\ last' = Event("volume", 0)
  /\ UNCHANGED <<station, isPlaying, isLoading, error, soundRef, mounted>>
  /\ UNCHANGED asmVars

\* togglePlayPause, reached from the button (rendered with a station,
\* disabled while isLoading)
togglePlayPause ==
  /\ mounted
  /\ station # NoStation
  /\ ~isLoading
  /\ last' = Event("toggle", 0)
  /\ IF soundRef = 0
       THEN UNCHANGED <<isPlaying, howls>>
       ELSE IF isPlaying
              THEN /\ howls' = Pause(howls, soundRef)
                   /\ isPlaying' = FALSE
              ELSE /\ howls[soundRef].plays < MaxPlays
                   /\ howls' = Play(howls, soundRef)
                   /\ isPlaying' = TRUE
  /\ UNCHANGED <<station, volume, isLoading, error, soundRef, mounted>>
  /\ UNCHANGED asmVars

\* The engine delivers a notification of handle h.  The callbacks are the
\* closures passed to new Howl; state setters of an unmounted component do
\* nothing.
onplay(h) ==
  /\ h \in 1..Len(howls)
  /\ last' = Event("onplay", h)
  /\ IF mounted THEN isPlaying' = TRUE /\ isLoading' = FALSE
                ELSE UNCHANGED <<isPlaying, isLoading>>
  /\ UNCHANGED <<station, volume, error, soundRef, howls, mounted>>
  /\ UNCHANGED asmVars

onload(h) ==
  /\ h \in 1..Len(howls)
  /\ last' = Event("onload", h)
  /\ IF mounted THEN isLoading' = FALSE ELSE UNCHANGED isLoading
  /\ UNCHANGED <<station, isPlaying, volume, error, soundRef, howls, mounted>>
  /\ UNCHANGED asmVars

onloaderror(h) ==
  /\ h \in 1..Len(howls)
  /\ last' = Event("onloaderror", h)
  /\ howls' = MarkErrored(howls, h)
  /\ IF mounted THEN isLoading' = FALSE /\ error' = LoadError
                ELSE UNCHANGED <<isLoading, error>>
  /\ UNCHANGED <<station, isPlaying, volume, soundRef, mounted>>
  /\ UNCHANGED asmVars

onplayerror(h) ==
  /\ h \in 1..Len(howls)
  /\ last' = Event("onplayerror", h)
  /\ howls' = MarkErrored(howls, h)
  /\ IF mounted THEN isPlaying' = FALSE /\ isLoading' = FALSE /\ error' = PlayError
                ELSE UNCHANGED <<isPlaying, isLoading, error>>
  /\ UNCHANGED <<station, volume, soundRef, mounted>>
  /\ UNCHANGED asmVars

onstop(h) ==
  /\ h \in 1..Len(howls)
  /\ last' = Event("onstop", h)
  /\ IF mounted THEN isPlaying' = FALSE ELSE UNCHANGED isPlaying
  /\ UNCHANGED <<station, volume, isLoading, error, soundRef, howls, mounted>>
  /\ UNCHANGED asmVars

onend(h) ==
  /\ h \in 1..Len(howls)
  /\ last' = Event("onend", h)
  /\ IF mounted THEN isPlaying' = FALSE ELSE UNCHANGED isPlaying
  /\ UNCHANGED <<station, volume, isLoading, error, soundRef, howls, mounted>>
  /\ UNCHANGED asmVars

\* the effect's cleanup on component unmount
Unmount ==
  /\ mounted
  /\ mounted' = FALSE
  /\ howls' = Unload(howls, soundRef)
  /\ soundRef' = 0
  /\ last' = Event("unmount", 0)
  /\ UNCHANGED <<station, isPlaying, volume, isLoading, error>>
  /\ UNCHANGED asmVars

PlayerInit ==
  /\ station = NoStation
  /\ isPlaying = FALSE
  /\ volume = DefaultVolume
  /\ isLoading = FALSE
  /\ error = NoError
  /\ soundRef = 0
  /\ howls = <<>>
  /\ mounted = TRUE
  /\ last = Event("mount", 0)

AsmInit ==
  /\ pc = "start"
  /\ stationsWithGeo = [ok |-> TRUE, stations |-> <<>>]
  /\ validGeoStations = <<>>
  /\ queries = <<>>
  /\ replies = <<>>
  /\ flatStations = <<>>
  /\ additionalStations = <<>>
  /\ result = [status |-> "pending", stations |-> <<>>]
  /\ arrived = <<>>

Init == PlayerInit /\ AsmInit

Next ==
  \/ \E s \in Stations \cup {NoStation} : StationChanged(s)
  \/ \E v \in Volumes : handleVolumeChange(v)
  \/ togglePlayPause
  \/ \E h \in 1..MaxHowls : onplay(h)
  \/ \E h \in 1..MaxHowls : onload(h)
  \/ \E h \in 1..MaxHowls : onloaderror(h)
  \/ \E h \in 1..MaxHowls : onplayerror(h)
  \/ \E h \in 1..MaxHowls : onstop(h)
  \/ \E h \in 1..MaxHowls : onend(h)
  \/ Unmount

Spec == Init /\ [][Next]_vars

AsmNext ==
  \/ \E resp \in PrimaryReplies : PrimaryQueryReturns(resp)
  \/ PrimaryQueryFails
  \/ \E i \in 1..Len(queries) :
       \E resp \in CountryReplies(queries[i].countryCode) :
         CountryQueryReturns(i, resp)
  \/ \E i \in 1..Len(queries) : CountryQueryFails(i)
  \/ Join

AsmSpec == Init /\ [][AsmNext]_vars

\* ============================== properties ===============================

Notifications == {"onplay", "onload", "onloaderror", "onplayerror", "onstop", "onend"}

LiveHowls == {h \in 1..Len(howls) : ~howls[h].unloaded}

\* C1  Session exclusivity: at most one engine handle is live, it is the one
\* in soundRef, every other handle ever created has been unloaded, and the
\* live handle plays the stream URL of the station selected last.
C1_SessionExclusivity ==
  /\ Cardinality(LiveHowls) <= 1
  /\ \A h \in 1..Len(howls) : h # soundRef => howls[h].unloaded
  /\ soundRef # 0 =>
       /\ soundRef \in LiveHowls
       /\ howls[soundRef].src = StationUrl(station)

\* A then B: A's handle released, B's handle the only live one
C1_Witness ==
  /\ last.ev = "select"
  /\ station.id = "B"
  /\ Len(howls) = 2
  /\ howls[1].src = "u1" /\ howls[1].unloaded
  /\ soundRef = 2 /\ LiveHowls = {2}

\* C2  Stale callback suppression: a notification of a handle that has been
\* released leaves isPlaying, isLoading and error as they were.
C2_StaleCallbackSuppressed ==
  [][ ( /\ last'.ev \in Notifications
        /\ last'.h \in 1..Len(howls)
        /\ howls[last'.h].unloaded
        /\ mounted )
      => UNCHANGED <<isPlaying, isLoading, error>> ]_vars

\* ---- assembler
Output == result.stations

IsFinite(x) == x.k = "number"
InRange(x, lo, hi) == IsFinite(x) /\ lo <= x.v /\ x.v <= hi
Returned == pc = "done" /\ result.status = "returned"

\* C3  Coordinate invariant: every returned record has a finite geoLat in
\* [-90,90] and a finite geoLong in [-180,180].
C3_CoordinateInvariant ==
  Returned =>
    \A i \in 1..Len(Output) :
      /\ InRange(Output[i].geoLat, -90, 90)
      /\ InRange(Output[i].geoLong, -180, 180)

\* C4  Uniqueness: no two returned records share an id.
C4_Uniqueness ==
  Returned =>
    \A i, j \in 1..Len(Output) : i # j => Output[i].id # Output[j].id

\* C5  The assembler never raises: whatever queries fail, the run never ends
\* in a throw and a finished run has returned a sequence.
C5_NeverRaises ==
  /\ result.status # "threw"
  /\ pc = "done" => result.status = "returned"

\* a finished run in which a country-scoped query failed and another succeeded
C5_Witness ==
  /\ Returned
  /\ \E i \in 1..Len(replies) : replies[i].state = "failed"
  /\ \E i \in 1..Len(replies) : replies[i].state = "ok" /\ replies[i].stations # <<>>
  /\ Output # <<>>

PriorityCodes == {IMPORTANT_COUNTRIES[i] : i \in 1..Len(IMPORTANT_COUNTRIES)}
AllCodes == PriorityCodes \cup {"XX", "", "unknown"}
ValidCount(c) ==
  Cardinality({i \in 1..Len(validGeoStations) : validGeoStations[i].countryCode = c})
QueriesFor(c) == {i \in 1..Len(queries) : queries[i].countryCode = c}

\* C6  Backfill threshold: once the primary query has succeeded, a country is
\* queried (once, with limit 20) exactly when it is a priority country with
\* fewer than 5 valid-coordinate primary records.
C6_BackfillThreshold ==
  (pc \in {"await", "done"} /\ stationsWithGeo.ok) =>
    /\ \A c \in AllCodes :
         Cardinality(QueriesFor(c)) = (IF c \in PriorityCodes /\ ValidCount(c) < 5 THEN 1 ELSE 0)
    /\ \A i \in 1..Len(queries) :
         queries[i].limit = 20 /\ queries[i].countryCode \in AllCodes

\* a country at 4 is queried, a country at exactly 5 is not
C6_Witness ==
  /\ pc = "done" /\ stationsWithGeo.ok
  /\ ValidCount("IN") = 4 /\ QueriesFor("IN") # {}
  /\ ValidCount("US") = 5 /\ QueriesFor("US") = {}
  /\ ValidCount("BR") < 5 /\ QueriesFor("BR") # {}

InBox(st, c) ==
  /\ InRange(st.geoLat, COUNTRY_BOUNDARIES[c].lat[1], COUNTRY_BOUNDARIES[c].lat[2])
  /\ InRange(st.geoLong, COUNTRY_BOUNDARIES[c].long[1], COUNTRY_BOUNDARIES[c].long[2])

NoValidPrimary(c) == Returned /\ stationsWithGeo.ok /\ ValidCount(c) = 0

\* the reply carried usable coordinates for the record: both numbers, not 0
CarriedCoordinates(st) ==
  /\ st.geoLat.k = "number" /\ st.geoLat.v # 0
  /\ st.geoLong.k = "number" /\ st.geoLong.v # 0

\* C7 as stated: with no valid-coordinate primary record for IN, an IN query
\* is issued and every IN record of the output (at most 20) lies in India's
\* bounding box, whatever coordinates the reply carried.
C7_AllInBox ==
  NoValidPrimary("IN") =>
    /\ QueriesFor("IN") # {}
    /\ Cardinality({i \in 1..Len(Output) : Output[i].countryCode = "IN"}) <= 20
    /\ \A i \in 1..Len(Output) :
         Output[i].countryCode = "IN" => InBox(Output[i], "IN")

\* C7 amended: with no valid-coordinate primary record for IN, an IN query is
\* issued and every IN record of the output comes from a country-scoped
\* reply; if the reply carried no usable coordinates for it, its coordinate
\* is synthesized inside India's bounding box, and if the reply carried its
\* own coordinates it keeps them unchanged.
C7_SynthesizedInBox ==
  NoValidPrimary("IN") =>
    /\ QueriesFor("IN") # {}
    /\ \A i \in 1..Len(Output) :
         Output[i].countryCode = "IN" =>
           \E j \in 1..Len(flatStations) :
             /\ additionalStations[j] = Output[i]
             /\ flatStations[j].id = Output[i].id
             /\ IF CarriedCoordinates(flatStations[j])
                  THEN Output[i] = flatStations[j]
                  ELSE InBox(Output[i], "IN")

\* an IN record that came without coordinates is in the output, in the box
C7_Witness ==
  /\ NoValidPrimary("IN")
  /\ \E i \in 1..Len(Output) : \E j \in 1..Len(flatStations) :
       /\ Output[i].countryCode = "IN"
       /\ additionalStations[j] = Output[i]
       /\ ~CarriedCoordinates(flatStations[j])
       /\ InBox(Output[i], "IN")

\* ---- audio controller, continued

\* the step released the old handle and created a session in Loading, bound
\* to the new station's URL, with play() called once
FreshSession ==
  /\ Len(howls') = Len(howls) + 1
  /\ soundRef' = Len(howls')
  /\ soundRef # 0 => howls'[soundRef].unloaded
  /\ ~howls'[soundRef'].unloaded
  /\ howls'[soundRef'].src = StationUrl(station')
  /\ howls'[soundRef'].plays = 1
  /\ isLoading' /\ ~isPlaying' /\ error' = NoError

SessionUntouched == UNCHANGED <<howls, soundRef, isPlaying, isLoading, error>>

C9_ErrorIsolation ==
  [][ /\ ( /\ last'.ev = "select"
           /\ soundRef # 0 /\ howls[soundRef].errored /\ error = LoadError
           /\ Truthy(StationUrl(station'))
           /\ StationUrl(station') # StationUrl(station) )
         => FreshSession
      /\ ( /\ last'.ev = "onplay" /\ last'.h = soundRef
           /\ mounted /\ isLoading /\ error = NoError )
         => (isPlaying' /\ ~isLoading' /\ error' = NoError) ]_vars

\* B is Playing without error after an earlier session's failure
C9_Witness ==
  /\ last.ev = "onplay" /\ last.h = soundRef /\ soundRef # 0
  /\ \E h \in 1..Len(howls) :
       howls[h].errored /\ howls[h].unloaded /\ howls[h].src # howls[soundRef].src
  /\ isPlaying /\ ~isLoading /\ error = NoError

\* C10  Volume persistence: the live handle always has the volume requested
\* last, so a session created after a volume request starts with it.
C10_VolumePersistence ==
  soundRef # 0 => howls[soundRef].volume = volume

\* volume set to 0.3, then a switch: the new session starts at 0.3
C10_Witness ==
  /\ last.ev = "select"
  /\ Len(howls) >= 2 /\ soundRef = Len(howls)
  /\ volume = 30 /\ howls[soundRef].volume = 30

\* the session in soundRef has had a load or play failure reported
SessionFailed == soundRef # 0 /\ howls[soundRef].errored

\* C11  Failures are terminal: once the current session has failed and the
\* controller reports not playing, no later step on that session reports
\* Playing or calls play() on its handle.
C11_FailureTerminal ==
  [][ (SessionFailed /\ ~isPlaying /\ soundRef' = soundRef) =>
        /\ ~isPlaying'
        /\ howls'[soundRef].plays = howls[soundRef].plays ]_vars

\* C12  Deselection ends in Idle: after the station becomes null no handle is
\* live and the controller reports not playing, not loading, no error.
C12_DeselectIdle ==
  [][ (last'.ev = "select" /\ station' = NoStation) =>
        /\ soundRef' = 0
        /\ \A h \in 1..Len(howls') : howls'[h].unloaded
        /\ ~isPlaying' /\ ~isLoading' /\ error' = NoError ]_vars

\* C13  Teardown on error: a load or play error of the current session
\* releases its handle.
C13_ErrorReleases ==
  [][ ( /\ last'.ev \in {"onloaderror", "onplayerror"}
        /\ soundRef # 0 /\ last'.h = soundRef
        /\ mounted )
      => (howls'[last'.h].unloaded /\ soundRef' = 0) ]_vars

\* C18  Play/pause toggle: nothing changes without a session; with one, a
\* controller reporting Playing pauses the engine and reports not playing,
\* otherwise it calls play() and reports Playing; volume, error, isLoading,
\* the station and the session slot stay as they are.
C18_Toggle ==
  [][ last'.ev = "toggle" =>
        /\ UNCHANGED <<station, volume, error, isLoading, soundRef, mounted>>
        /\ IF soundRef = 0
             THEN UNCHANGED <<isPlaying, howls>>
             ELSE /\ \A h \in 1..Len(howls) : h # soundRef => howls'[h] = howls[h]
                  /\ howls'[soundRef].volume = howls[soundRef].volume
                  /\ ~howls'[soundRef].unloaded
                  /\ IF isPlaying
                       THEN /\ howls'[soundRef].cmd = "pause"
                            /\ howls'[soundRef].plays = howls[soundRef].plays
                            /\ ~isPlaying'
                       ELSE /\ howls'[soundRef].cmd = "play"
                            /\ howls'[soundRef].plays = howls[soundRef].plays + 1
                            /\ isPlaying' ]_vars

\* a toggle has paused a session that was reported Playing
C18_Witness ==
  /\ last.ev = "toggle"
  /\ soundRef # 0 /\ howls[soundRef].cmd = "pause"
  /\ ~isPlaying /\ error = NoError

\* ---- assembler, continued
PrimaryOk == Returned /\ stationsWithGeo.ok

\* position of the first record of reply i in the flattened sequence
RECURSIVE Offset(_)
Offset(i) == IF i <= 1 THEN 0 ELSE Offset(i - 1) + Len(replies[i - 1].stations)

InOutputTail(st) ==
  \E o \in (Len(validGeoStations) + 1)..Len(Output) : Output[o] = st

\* record j of the synthesized sequence can be admitted: usable coordinates,
\* an id that no valid primary record and no earlier admissible record has
Eligible(j) ==
  /\ CarriedCoordinates(additionalStations[j])
  /\ \A i \in 1..Len(validGeoStations) :
       validGeoStations[i].id # additionalStations[j].id
  /\ \A k \in 1..(j - 1) :
       additionalStations[k].id = additionalStations[j].id
         => ~CarriedCoordinates(additionalStations[k])

\* C14  Supplementary failure isolation: with the primary query succeeded,
\* the output starts with every valid-coordinate primary record, a failed
\* country query contributes nothing, and every record of a succeeded query
\* is flattened in place and, if eligible, is in the output.
C14_FailureIsolation ==
  PrimaryOk =>
    /\ Len(Output) >= Len(validGeoStations)
    /\ SubSeq(Output, 1, Len(validGeoStations)) = validGeoStations
    /\ \A i \in 1..Len(replies) :
         /\ replies[i].state = "failed" => replies[i].stations = <<>>
         /\ \A k \in 1..Len(replies[i].stations) :
              /\ Offset(i) + k <= Len(flatStations)
              /\ flatStations[Offset(i) + k] = replies[i].stations[k]
    /\ Len(additionalStations) = Len(flatStations)
    /\ \A j \in 1..Len(additionalStations) :
         Eligible(j) => InOutputTail(additionalStations[j])

\* one query failed, a later one succeeded and its record is in the output
C14_Witness ==
  /\ PrimaryOk
  /\ Len(replies) = 2
  /\ replies[1].state = "failed"
  /\ replies[2].state = "ok" /\ replies[2].stations # <<>>
  /\ Eligible(1) /\ InOutputTail(additionalStations[1])
  /\ validGeoStations # <<>>

\* C16  Primary filtering: a primary record is kept exactly when its latitude
\* and longitude are both present numbers (not NaN); 0 counts as a number.
C16_PrimaryFilter ==
  (pc # "start" /\ stationsWithGeo.ok) =>
    \A i \in 1..Len(stationsWithGeo.stations) :
      (\E j \in 1..Len(validGeoStations) :
         validGeoStations[j] = stationsWithGeo.stations[i])
      <=> ( /\ stationsWithGeo.stations[i].geoLat.k = "number"
            /\ stationsWithGeo.stations[i].geoLong.k = "number" )

\* the reply gave no coordinate for the record: one is absent or NaN
NoCoordinates(st) == st.geoLat.k # "number" \/ st.geoLong.k # "number"

NewId(j) ==
  /\ \A i \in 1..Len(validGeoStations) : validGeoStations[i].id # flatStations[j].id
  /\ \A k \in 1..Len(flatStations) : k # j => flatStations[k].id # flatStations[j].id

\* C17  Merge admission: a supplementary record that came without
\* coordinates, has a bounds entry and a new id is in the output with its
\* synthesized coordinate, whatever was drawn; one that came without
\* coordinates and has no bounds entry is absent.
C17_MergeAdmission ==
  PrimaryOk =>
    \A j \in 1..Len(flatStations) :
      /\ ( /\ NoCoordinates(flatStations[j])
           /\ flatStations[j].countryCode \in DOMAIN COUNTRY_BOUNDARIES
           /\ NewId(j) )
         => ( /\ InOutputTail(additionalStations[j])
              /\ InBox(additionalStations[j], flatStations[j].countryCode) )
      /\ ( /\ NoCoordinates(flatStations[j])
           /\ flatStations[j].countryCode \notin DOMAIN COUNTRY_BOUNDARIES )
         => ~(\E o \in 1..Len(Output) : Output[o] = flatStations[j])

\* C19  Primary failure: when the primary query fails the run returns the
\* empty sequence and no country-scoped query is issued.
C19_PrimaryFailure ==
  ~stationsWithGeo.ok =>
    /\ pc = "done"
    /\ result = [status |-> "returned", stations |-> <<>>]
    /\ queries = <<>> /\ replies = <<>>

\* the run has ended on a failed primary query
C19_Witness ==
  /\ pc = "done" /\ ~stationsWithGeo.ok
  /\ result.status = "returned" /\ Output = <<>> /\ queries = <<>>

\* the position in arrived of the answer to query i
AnswerOf(i) == (CHOOSE k \in 1..Len(arrived) : arrived[k].q = i)

RECURSIVE InIssueOrder(_)
InIssueOrder(n) ==
  IF n = 0 THEN <<>> ELSE InIssueOrder(n - 1) \o arrived[AnswerOf(n)].stations

PriorityIndex(code) ==
  CHOOSE n \in 1..Len(IMPORTANT_COUNTRIES) : IMPORTANT_COUNTRIES[n] = code

RECURSIVE EligibleUpTo(_)
EligibleUpTo(j) ==
  IF j = 0 THEN <<>>
  ELSE IF Eligible(j) THEN Append(EligibleUpTo(j - 1), additionalStations[j])
       ELSE EligibleUpTo(j - 1)

====
